---- MODULE Spec2Model ----
(***************************************************************************)
(* The checkpointed batch loop of v3.py (syariatifaris/sds-langchain).     *)
(*                                                                         *)
(* The script is module-level code: two CSV files are prepared, then every *)
(* ".pdf" entry of sorted(os.listdir(pdfs_folder)) goes through load,      *)
(* stage 1 (agent.invoke or <base>_1.json), stage 2 (agent.invoke or       *)
(* <base>_2.json), the processed-file append, the row append and the       *)
(* memory clear.  The file system outlives the process; everything else is *)
(* lost when the process ends (normally, by an uncaught exception, or by   *)
(* being killed).                                                          *)
(*                                                                         *)
(* Python values are modelled as tagged tuples whose tag fixes the shape:  *)
(*   <<"lit", k, x>>   a str that is not JSON text (k names what it is)    *)
(*   <<"json", v>>     the str json.dumps(v)                               *)
(*   <<"pad", s>>      the str s with surrounding whitespace               *)
(*   <<"dict", f>>     a dict, f a function from key to value              *)
(*   <<"absent">>      (for a path) no such file                           *)
(*   <<"unbound">>     (for a name) not assigned yet                       *)
(***************************************************************************)
EXTENDS Integers, Sequences, FiniteSets, TLC

\* ---- bounds ----
NumFiles == 3
MaxPasses == 3

\* ---- the directory listing ----
\* sorted(os.listdir(pdfs_folder)): file names are their rank in the sorted
\* listing; the first entry is not a ".pdf" (say ".gitkeep").
Files == 1..NumFiles
EndsWithPdf(f) == f > 1
Docs == {f \in Files : EndsWithPdf(f)}

\* ---- Python str / dict values ----
Lit(k, x) == <<"lit", k, x>>
EmptyStr == Lit("", 0)
NA == Lit("N/A", 0)
\* text that is not JSON and is not wrapped in braces (prose, a markdown fence)
Prose == Lit("prose", 0)
\* text wrapped in braces that is not JSON (a trailing comma, as in the prompt)
Brace == Lit("{,}", 0)
\* the value of field k as it stands in document t
FieldVal(k, t) == Lit(k, t)
\* f"ERROR: {error_message}" for the exception message e
ErrMark(e) == Lit("ERROR", e)
Pad(s) == <<"pad", s>>
Dict(f) == <<"dict", f>>
Absent == <<"absent">>

IsStr(v) == v[1] \in {"lit", "json", "pad"}
IsDict(v) == v[1] = "dict"

\* str.strip()
Strip(s) == IF s[1] = "pad" THEN s[2] ELSE s

\* json.dumps(v) / json.dump(v, file): the JSON text of v
JsonDumps(v) == <<"json", v>>

\* json.loads(s) / json.load(file) succeeds (else JSONDecodeError; TypeError
\* when s is not a str)
JsonValid(s) == IsStr(s) /\ Strip(s)[1] = "json"
JsonLoads(s) == Strip(s)[2]

\* s.strip().startswith("{") and s.strip().endswith("}")
BraceDelimited(s) ==
    \/ Strip(s) = Brace
    \/ Strip(s)[1] = "json" /\ IsDict(Strip(s)[2])

\* d.get(k, default)
Get(d, k, default) == IF k \in DOMAIN d[2] THEN d[2][k] ELSE default

\* product_info.replace('"', '\"'): in Python source '\"' is the one
\* character '"', so the call returns its receiver unchanged.
Replace(s) == s

\* ---- the records of the two stages ----
Stage1Keys == {"product_code", "product_name", "manufacturer_supplier",
               "product_item_number", "ufi_code", "current_sds_version",
               "current_sds_date", "language_country", "intended_use"}
Stage2Keys == {"latest_sds_url", "latest_sds_version", "latest_sds_date"}

\* the agent's stage-1 / stage-2 answer read off document t
Fields1(t) == [k \in Stage1Keys |-> FieldVal(k, t)]
Fields2(t) == [k \in Stage2Keys |-> FieldVal(k, t)]

\* Mutant of DefaultResponse1: the default record lacks "current_sds_version",
\* so that the row falls back on .get's "N/A".
DefaultResponse1NoVersion ==
    Dict([output |-> JsonDumps(Dict([k \in Stage1Keys \ {"current_sds_version"} |-> EmptyStr]))])

\* lines 123-135 and 138-144
DefaultResponse1 == Dict([output |-> JsonDumps(Dict([k \in Stage1Keys |-> EmptyStr]))])
DefaultResponse2 == Dict([output |-> JsonDumps(Dict([k \in Stage2Keys |-> EmptyStr]))])

\* lines 263-269
ErrorResponse2(e) ==
    Dict([output |-> JsonDumps(Dict([k \in Stage2Keys |->
            IF k = "latest_sds_url" THEN ErrMark(e) ELSE EmptyStr]))])

\* ---- CSV lines ----
\* A cell is a str: Lit(k, 0) is the column name k itself, Lit("document", f)
\* the name of file f.
OutputColumns == <<"document", "product_name", "manufacturer_supplier",
                   "current_sds_version", "current_sds_date", "latest_sds_url",
                   "latest_sds_version", "latest_sds_date">>
\* the header rows, lines 110 and 116
OutputHeader == [c \in 1..Len(OutputColumns) |-> Lit(OutputColumns[c], 0)]
ProcessedHeader == <<Lit("document", 0)>>
FileName(f) == Lit("document", f)

\* ---- the Extraction Agent (external) ----
\* The documents a str carries field values of.
DocsIn(s) ==
    IF JsonValid(s) /\ IsDict(JsonLoads(s))
    THEN {JsonLoads(s)[2][k][3] :
            k \in {j \in DOMAIN JsonLoads(s)[2] : JsonLoads(s)[2][j][2] = j}} \ {0}
    ELSE {}

\* str(e) of the exceptions agent.invoke can raise (1: a timeout)
AgentErrors == {1}

\* What agent.invoke may return as "output" when the content it can see (the
\* get_pdf_content tool, the chat memory, the prompt) stems from documents S:
\* the requested JSON object, possibly with surrounding whitespace, or text
\* that is not JSON.
Stage1Outputs(S) ==
    {JsonDumps(Dict(Fields1(t))) : t \in S}
      \cup {Pad(JsonDumps(Dict(Fields1(t)))) : t \in S}
      \cup {Prose}
Stage2Outputs(S) ==
    {JsonDumps(Dict(Fields2(t))) : t \in S}
      \cup {Prose}

\* ---- checkpoints found at start-up ----
\* The reader of <base>_2.json (lines 224-233) expects an object with an "output"
\* member holding the JSON text of the stage-2 record.  The checkpoint folder
\* may hold such files, left by whatever wrote them in that form.
WrappedCheckpoint(d) == JsonDumps(Dict([output |-> JsonDumps(Dict(Fields2(d)))]))
\* ... and one whose "output" is a JSON object without latest_sds_version and
\* latest_sds_date.
PartialCheckpoint(d) ==
    JsonDumps(Dict([output |->
        JsonDumps(Dict([k \in {"latest_sds_url"} |-> FieldVal(k, d)]))]))

\* ---- state ----
VARIABLES
    pc,                     \* where the script stands
    passes,                 \* history: documents begun, over all runs
    error,                  \* the uncaught exception the process died of, or ""
    unreadable,             \* the PDFs PyPDFLoader cannot load
    fs,                     \* which of the two CSV files exist
    output_csv,             \* lines of output.csv
    processed_file_csv,     \* lines of processed_file.csv
    ckpt1,                  \* content of <base>_1.json per document
    ckpt2,                  \* content of <base>_2.json per document
    idx,                    \* position of the for loop in the sorted listing
    pdf_text,               \* global pdf_text: the document it was read from
    isPDFValid,
    response1,
    product_info,
    sanitized_product_info,
    response2,
    hasValidJson,
    memory,                 \* documents whose content memory.chat_memory holds
    invoked,                \* history: agent.invoke calls of this run, <<doc, stage, seed>>
    written1,               \* history: the str each completed stage-1 dump was given
    prevEnd,                \* history: how the previous run ended
    rowsAtStart             \* history: Len(output_csv) when this run entered the loop

\* ---- html_to_text_converter.py run as a script (main) ----
VARIABLES
    hpc,                    \* where main stands
    args,                   \* argparse's namespace
    html_content,
    extracted_text,
    result_json,
    stdout,                 \* what main has printed as its outcome, in order
    output_file,            \* content of the file named by --output
    fetched,                \* history: what the request returned
    cleaned_text            \* history: cleaned_text of extract_text_from_html

converter == <<hpc, args, html_content, extracted_text, result_json, stdout,
               output_file, fetched, cleaned_text>>

None == <<"None">>

\* html_to_text_converter.main has not been started
ConverterIdle ==
    /\ hpc = "idle"
    /\ args = None
    /\ html_content = None
    /\ extracted_text = <<>>
    /\ result_json = None
    /\ stdout = <<>>
    /\ output_file = Absent
    /\ fetched = None
    /\ cleaned_text = <<>>

files == <<fs, output_csv, processed_file_csv, ckpt1, ckpt2>>
locals == <<idx, pdf_text, isPDFValid, response1, product_info,
            sanitized_product_info, response2, hasValidJson, memory>>
history == <<invoked, written1, prevEnd, rowsAtStart>>
vars == <<pc, passes, error, unreadable, files, locals, history, converter>>

\* a name that is not bound yet
Unbound == <<"unbound">>

\* The variables of a process that has just started: lines 65 (memory) and
\* nothing else bound.
FreshProcess ==
    /\ idx' = 0
    /\ pdf_text' = 0
    /\ isPDFValid' = FALSE
    /\ response1' = Unbound
    /\ product_info' = Unbound
    /\ sanitized_product_info' = Unbound
    /\ response2' = Unbound
    /\ hasValidJson' = FALSE
    /\ memory' = {}

Init ==
    /\ pc = "setup_output"
    /\ passes = 0
    /\ error = ""
    /\ unreadable \in SUBSET Docs
    /\ fs = {}
    /\ output_csv = <<>>
    /\ processed_file_csv = <<>>
    /\ ckpt1 = [d \in Docs |-> Absent]
    /\ ckpt2 \in {c \in [Docs -> {Absent} \cup {WrappedCheckpoint(d) : d \in Docs}
                                         \cup {PartialCheckpoint(d) : d \in Docs}] :
                    \A d \in Docs :
                        \* the checkpoints of a document that cannot be loaded are
                        \* never opened (line 158), so only the absent case is kept
                        c[d] \in IF d \in unreadable THEN {Absent}
                                ELSE {Absent, WrappedCheckpoint(d), PartialCheckpoint(d)}}
    /\ idx = 0
    /\ pdf_text = 0
    /\ isPDFValid = FALSE
    /\ response1 = Unbound
    /\ product_info = Unbound
    /\ sanitized_product_info = Unbound
    /\ response2 = Unbound
    /\ hasValidJson = FALSE
    /\ memory = {}
    /\ invoked = {}
    /\ written1 = [d \in Docs |-> Unbound]
    /\ prevEnd = "none"
    /\ rowsAtStart = 0
    /\ ConverterIdle

\* The process ends: its variables are gone, the files stay.
Exit(how, exc) ==
    /\ pc' = how
    /\ error' = exc
    /\ FreshProcess
    /\ invoked' = {}
    /\ rowsAtStart' = 0
    /\ UNCHANGED <<passes, unreadable, converter, files, written1, prevEnd>>

\* ---- lines 106-116: the two CSV files ----
SetupOutput ==
    /\ pc = "setup_output"
    /\ IF "output.csv" \in fs
       THEN pc' = "setup_processed" /\ UNCHANGED <<fs, output_csv>>
       ELSE /\ fs' = fs \cup {"output.csv"}
            /\ output_csv' = <<>>
            /\ pc' = "setup_output_header"
    /\ UNCHANGED <<passes, error, unreadable, converter, processed_file_csv, ckpt1, ckpt2, locals, history>>

SetupOutputHeader ==
    /\ pc = "setup_output_header"
    /\ output_csv' = Append(output_csv, OutputHeader)
    /\ pc' = "setup_processed"
    /\ UNCHANGED <<passes, error, unreadable, converter, fs, processed_file_csv, ckpt1, ckpt2, locals, history>>

SetupProcessed ==
    /\ pc = "setup_processed"
    /\ IF "processed_file.csv" \in fs
       THEN /\ pc' = "loop"
            /\ idx' = 1
            /\ rowsAtStart' = Len(output_csv)
            /\ UNCHANGED <<fs, processed_file_csv>>
       ELSE /\ fs' = fs \cup {"processed_file.csv"}
            /\ processed_file_csv' = <<>>
            /\ pc' = "setup_processed_header"
            /\ UNCHANGED <<idx, rowsAtStart>>
    /\ UNCHANGED <<passes, error, unreadable, converter, output_csv, ckpt1, ckpt2, pdf_text, isPDFValid,
                   response1, product_info, sanitized_product_info, response2,
                   hasValidJson, memory, invoked, written1, prevEnd>>

SetupProcessedHeader ==
    /\ pc = "setup_processed_header"
    /\ processed_file_csv' = Append(processed_file_csv, ProcessedHeader)
    /\ pc' = "loop"
    /\ idx' = 1
    /\ rowsAtStart' = Len(output_csv)
    /\ UNCHANGED <<passes, error, unreadable, converter, fs, output_csv, ckpt1, ckpt2, pdf_text, isPDFValid,
                   response1, product_info, sanitized_product_info, response2,
                   hasValidJson, memory, invoked, written1, prevEnd>>

\* ---- lines 119-144: the loop head ----
\* line 325: the listing is exhausted
Finish ==
    /\ pc = "loop"
    /\ idx > NumFiles
    /\ Exit("done", "")

\* line 120: not a ".pdf"
SkipFile ==
    /\ pc = "loop"
    /\ idx \in Files
    /\ ~EndsWithPdf(idx)
    /\ idx' = idx + 1
    /\ UNCHANGED <<pc, passes, error, unreadable, converter, files, pdf_text, isPDFValid, response1,
                   product_info, sanitized_product_info, response2, hasValidJson,
                   memory, history>>

\* lines 121-146: the per-document defaults
BeginDocument ==
    /\ pc = "loop"
    /\ idx \in Files
    /\ EndsWithPdf(idx)
    /\ passes < MaxPasses
    /\ passes' = passes + 1
    /\ response1' = DefaultResponse1
    /\ product_info' = Strip(DefaultResponse1[2].output)
    /\ response2' = DefaultResponse2
    /\ isPDFValid' = FALSE
    /\ pc' = "load"
    /\ UNCHANGED <<error, unreadable, converter, files, idx, pdf_text, sanitized_product_info,
                   hasValidJson, memory, history>>

\* lines 148-158
LoadPdf ==
    /\ pc = "load"
    /\ IF idx \in unreadable
       THEN /\ isPDFValid' = FALSE
            /\ pc' = "row"
            /\ UNCHANGED pdf_text
       ELSE /\ pdf_text' = idx
            /\ isPDFValid' = TRUE
            /\ pc' = "stage1"
    /\ UNCHANGED <<passes, error, unreadable, converter, files, idx, response1, product_info,
                   sanitized_product_info, response2, hasValidJson, memory, history>>

\* ---- lines 165-213: stage 1 ----
\* lines 174-202: no <base>_1.json, so the agent is invoked; nothing catches
\* what agent.invoke raises.
Stage1Invoke ==
    /\ pc = "stage1"
    /\ ckpt1[idx] = Absent
    /\ \/ \E out \in Stage1Outputs({pdf_text} \cup memory) :
            /\ invoked' = invoked \cup {<<idx, 1, EmptyStr>>}
            /\ response1' = Dict([output |-> out])
            /\ product_info' = Strip(out)
            /\ memory' = memory \cup DocsIn(out)
            /\ sanitized_product_info' = Replace(Strip(out))
            /\ pc' = "stage1_open"
            /\ UNCHANGED <<passes, error, unreadable, converter, files, idx, pdf_text, isPDFValid,
                           response2, hasValidJson, written1, prevEnd, rowsAtStart>>
       \/ \E e \in AgentErrors : Exit("aborted", "AgentError")

\* line 205: open(json_path, "w") creates or truncates the file
Stage1Open ==
    /\ pc = "stage1_open"
    /\ ckpt1' = [ckpt1 EXCEPT ![idx] = EmptyStr]
    /\ pc' = "stage1_dump"
    /\ UNCHANGED <<passes, error, unreadable, converter, fs, output_csv, processed_file_csv, ckpt2,
                   locals, history>>

\* lines 206-207: json.dump(product_info, json_file), file closed
Stage1Dump ==
    /\ pc = "stage1_dump"
    /\ ckpt1' = [ckpt1 EXCEPT ![idx] = JsonDumps(product_info)]
    /\ written1' = [written1 EXCEPT ![idx] = product_info]
    /\ pc' = "stage2"
    /\ UNCHANGED <<passes, error, unreadable, converter, fs, output_csv, processed_file_csv, ckpt2,
                   locals, invoked, prevEnd, rowsAtStart>>

\* Mutant of Stage1Load: the else branch forgets sanitized_product_info, which
\* keeps the "" of line 172.
Stage1LoadNoSeed ==
    /\ pc = "stage1"
    /\ ckpt1[idx] # Absent
    /\ IF ~JsonValid(ckpt1[idx])
       THEN Exit("aborted", "JSONDecodeError")
       ELSE IF ~IsStr(JsonLoads(ckpt1[idx]))
       THEN Exit("aborted", "AttributeError")
       ELSE /\ product_info' = JsonLoads(ckpt1[idx])
            /\ sanitized_product_info' = EmptyStr
            /\ pc' = "stage2"
            /\ UNCHANGED <<passes, error, unreadable, converter, files, idx, pdf_text, isPDFValid,
                           response1, response2, hasValidJson, memory, history>>

\* lines 208-213: <base>_1.json exists; json.load and .replace are not in a try
Stage1Load ==
    /\ pc = "stage1"
    /\ ckpt1[idx] # Absent
    /\ IF ~JsonValid(ckpt1[idx])
       THEN Exit("aborted", "JSONDecodeError")
       ELSE IF ~IsStr(JsonLoads(ckpt1[idx]))
       THEN Exit("aborted", "AttributeError")
       ELSE /\ product_info' = JsonLoads(ckpt1[idx])
            /\ sanitized_product_info' = Replace(JsonLoads(ckpt1[idx]))
            /\ pc' = "stage2"
            /\ UNCHANGED <<passes, error, unreadable, converter, files, idx, pdf_text, isPDFValid,
                           response1, response2, hasValidJson, memory, history>>

\* ---- lines 215-276: stage 2 ----
\* lines 227-233 on the loaded value r: r["output"] is a str wrapped in braces
\* that json.loads turns into something with .get; any exception is caught.
Stage2Usable(r) ==
    /\ IsDict(r)
    /\ "output" \in DOMAIN r[2]
    /\ IsStr(r[2].output)
    /\ BraceDelimited(r[2].output)
    /\ JsonValid(r[2].output)
    /\ IsDict(JsonLoads(r[2].output))

\* lines 221-239: json.load(json_file) is outside the try
Stage2Check ==
    /\ pc = "stage2"
    /\ IF ckpt2[idx] = Absent
       THEN /\ hasValidJson' = FALSE
            /\ pc' = "stage2_invoke"
            /\ UNCHANGED <<passes, error, unreadable, converter, files, idx, pdf_text, isPDFValid,
                           response1, product_info, sanitized_product_info, response2,
                           memory, history>>
       ELSE IF ~JsonValid(ckpt2[idx])
       THEN Exit("aborted", "JSONDecodeError")
       ELSE /\ response2' = JsonLoads(ckpt2[idx])
            /\ hasValidJson' = Stage2Usable(JsonLoads(ckpt2[idx]))
            /\ pc' = IF Stage2Usable(JsonLoads(ckpt2[idx]))
                     THEN "stage2_reload" ELSE "stage2_invoke"
            /\ UNCHANGED <<passes, error, unreadable, converter, files, idx, pdf_text, isPDFValid,
                           response1, product_info, sanitized_product_info,
                           memory, history>>

\* lines 241-253 and 259-270: the agent is invoked with sanitized_product_info
\* in the prompt; what it raises is turned into the error-marker record.
Stage2Invoke ==
    /\ pc = "stage2_invoke"
    /\ invoked' = invoked \cup {<<idx, 2, sanitized_product_info>>}
    /\ \/ \E out \in Stage2Outputs({pdf_text} \cup memory
                                     \cup DocsIn(sanitized_product_info)) :
            /\ response2' = Dict([output |-> out])
            /\ memory' = memory \cup DocsIn(out)
            /\ pc' = "stage2_open"
       \/ \E e \in AgentErrors :
            /\ response2' = ErrorResponse2(e)
            /\ memory' = memory
            /\ pc' = "log"
    /\ UNCHANGED <<passes, error, unreadable, converter, files, idx, pdf_text, isPDFValid, response1,
                   product_info, sanitized_product_info, hasValidJson,
                   written1, prevEnd, rowsAtStart>>

\* line 256: open(json_path, "w")
Stage2Open ==
    /\ pc = "stage2_open"
    /\ ckpt2' = [ckpt2 EXCEPT ![idx] = EmptyStr]
    /\ pc' = "stage2_dump"
    /\ UNCHANGED <<passes, error, unreadable, converter, fs, output_csv, processed_file_csv, ckpt1,
                   locals, history>>

\* lines 257-258: json.dump(response2["output"], json_file)
Stage2Dump ==
    /\ pc = "stage2_dump"
    /\ ckpt2' = [ckpt2 EXCEPT ![idx] = JsonDumps(response2[2].output)]
    /\ pc' = "log"
    /\ UNCHANGED <<passes, error, unreadable, converter, fs, output_csv, processed_file_csv, ckpt1,
                   locals, history>>

\* lines 271-276
Stage2Reload ==
    /\ pc = "stage2_reload"
    /\ response2' = Dict([output |-> JsonLoads(ckpt2[idx])])
    /\ pc' = "log"
    /\ UNCHANGED <<passes, error, unreadable, converter, files, idx, pdf_text, isPDFValid, response1,
                   product_info, sanitized_product_info, hasValidJson, memory, history>>

\* ---- lines 280-284: the processed-file line ----
AppendProcessed ==
    /\ pc = "log"
    /\ processed_file_csv' = Append(processed_file_csv, <<FileName(idx)>>)
    /\ pc' = "row"
    /\ UNCHANGED <<passes, error, unreadable, converter, fs, output_csv, ckpt1, ckpt2, locals, history>>

\* ---- lines 289-320: the row ----
\* lines 291-301 raise nothing
RowParses(p, r) ==
    /\ JsonValid(p)
    /\ IsDict(JsonLoads(p))
    /\ IsDict(r)
    /\ "output" \in DOMAIN r[2]
    /\ JsonValid(r[2].output)
    /\ IsDict(JsonLoads(r[2].output))

\* lines 309-318
Row(f, p, r) ==
    <<FileName(f),
      Get(JsonLoads(p), "product_name", EmptyStr),
      Get(JsonLoads(p), "manufacturer_supplier", EmptyStr),
      Get(JsonLoads(p), "current_sds_version", NA),
      Get(JsonLoads(p), "current_sds_date", NA),
      Get(JsonLoads(r[2].output), "latest_sds_url", EmptyStr),
      Get(JsonLoads(r[2].output), "latest_sds_version", EmptyStr),
      Get(JsonLoads(r[2].output), "latest_sds_date", EmptyStr)>>

\* Mutant of WriteRow: output.csv is opened with mode "w" instead of "a".
WriteRowTruncating ==
    /\ pc = "row"
    /\ output_csv' = IF RowParses(product_info, response2)
                     THEN <<Row(idx, product_info, response2)>>
                     ELSE output_csv
    /\ pc' = "clear"
    /\ UNCHANGED <<passes, error, unreadable, converter, fs, processed_file_csv, ckpt1, ckpt2,
                   locals, history>>

WriteRow ==
    /\ pc = "row"
    /\ output_csv' = IF RowParses(product_info, response2)
                     THEN Append(output_csv, Row(idx, product_info, response2))
                     ELSE output_csv
    /\ pc' = "clear"
    /\ UNCHANGED <<passes, error, unreadable, converter, fs, processed_file_csv, ckpt1, ckpt2,
                   locals, history>>

\* Mutant of ClearMemory: the chat memory is not cleared.
ClearMemoryKeep ==
    /\ pc = "clear"
    /\ idx' = idx + 1
    /\ pc' = "loop"
    /\ UNCHANGED <<passes, error, unreadable, converter, files, pdf_text, isPDFValid, response1,
                   product_info, sanitized_product_info, response2, hasValidJson,
                   memory, history>>

\* ---- lines 322-323, and the for loop's step ----
ClearMemory ==
    /\ pc = "clear"
    /\ memory' = {}
    /\ idx' = idx + 1
    /\ pc' = "loop"
    /\ UNCHANGED <<passes, error, unreadable, converter, files, pdf_text, isPDFValid, response1,
                   product_info, sanitized_product_info, response2, hasValidJson,
                   history>>

\* ---- the process and its restarts ----
Running == pc \notin {"done", "aborted", "crashed"}

\* The process is killed (power loss, Ctrl-C, OOM) between two steps.
Crash ==
    /\ Running
    /\ Exit("crashed", "")

\* The script is started again over the same folders.
Rerun ==
    /\ ~Running
    /\ passes < MaxPasses
    /\ pc' = "setup_output"
    /\ error' = ""
    /\ prevEnd' = IF pc = "done" THEN "done" ELSE "killed"
    /\ UNCHANGED <<passes, unreadable, converter, files, locals, invoked, written1, rowsAtStart>>

Next ==
    \/ SetupOutput \/ SetupOutputHeader \/ SetupProcessed \/ SetupProcessedHeader
    \/ Finish \/ SkipFile \/ BeginDocument \/ LoadPdf
    \/ Stage1Invoke \/ Stage1Open \/ Stage1Dump \/ Stage1Load
    \/ Stage2Check \/ Stage2Invoke \/ Stage2Open \/ Stage2Dump \/ Stage2Reload
    \/ AppendProcessed \/ WriteRow \/ ClearMemory
    \/ Crash \/ Rerun

Spec == Init /\ [][Next]_vars

\* ---- what the claims speak of ----
\* the for loop is running (the two CSV files are prepared)
InLoop == pc \notin {"setup_output", "setup_output_header", "setup_processed",
                     "setup_processed_header", "done", "aborted", "crashed"}

\* the lines this run has appended to output.csv
RunRows == SubSeq(output_csv, rowsAtStart + 1, Len(output_csv))

\* the ".pdf" entries in the order the loop meets them
Enumerated == SelectSeq([f \in 1..NumFiles |-> f], EndsWithPdf)

\* the row of a document with all seven structured fields empty
EmptyRow(f) == <<FileName(f), EmptyStr, EmptyStr, EmptyStr, EmptyStr,
                 EmptyStr, EmptyStr, EmptyStr>>

IsErrorResponse(r) == \E e \in AgentErrors : r = ErrorResponse2(e)

\* this step is a stage-1 agent.invoke for document d (returning or raising)
Stage1InvokeStep(d) ==
    /\ pc = "stage1"
    /\ idx = d
    /\ \/ pc' = "stage1_open"
       \/ pc' = "aborted" /\ error' = "AgentError"

\* C1: after a run that went to completion, a further run over the same
\* folders makes no agent.invoke call and leaves output.csv as it found it.
C1_SecondRunIsFree ==
    (prevEnd = "done" /\ InLoop) =>
        /\ invoked = {}
        /\ Len(output_csv) = rowsAtStart

\* C2: no failure met while processing a document ends the run: the process
\* never dies of an uncaught exception.
C2_NoDocumentAbortsBatch == pc # "aborted"

\* C3: when the loop has gone through the listing, this run has appended
\* exactly one row per ".pdf" entry, in the order of the listing.
C3_OneRowPerDocument ==
    (pc = "loop" /\ idx > NumFiles) =>
        [i \in 1..Len(RunRows) |-> RunRows[i][1]]
            = [i \in 1..Len(Enumerated) |-> FileName(Enumerated[i])]

\* C4: once the stage-1 checkpoint of a document has been written, no later
\* step of any run (the process may be killed and restarted in between)
\* invokes the agent for stage 1 of that document or changes the checkpoint,
\* and every stage-2 invocation for the document is seeded with exactly the
\* str that was written.
C4_Stage1Resume ==
    /\ [](\A inv \in invoked : inv[2] = 2 => inv[3] = written1[inv[1]])
    /\ [][\A d \in Docs : written1[d] # Unbound =>
            /\ ~Stage1InvokeStep(d)
            /\ ckpt1'[d] = ckpt1[d]
            /\ written1'[d] = written1[d]]_vars

\* C4's case: the process was killed, the restarted run took stage 1 of a
\* document from its checkpoint and has invoked the agent for stage 2.
C4_Witness ==
    /\ prevEnd = "killed"
    /\ pc = "stage2_open"
    /\ written1[idx] # Unbound
    /\ <<idx, 2, written1[idx]>> \in invoked
    /\ \A inv \in invoked : inv[2] # 1

\* C5: when the stage-2 agent.invoke has raised, the document's stage-2
\* checkpoint holds the error-marker record.
C5_ErrorMarkerPersisted ==
    (pc = "log" /\ IsErrorResponse(response2)) =>
        ckpt2[idx] \in {JsonDumps(response2), JsonDumps(response2[2].output)}

\* the reader is about to meet a checkpoint file it cannot parse
CorruptCheckpoint1 ==
    /\ pc = "stage1"
    /\ ckpt1[idx] # Absent
    /\ ~(JsonValid(ckpt1[idx]) /\ IsStr(JsonLoads(ckpt1[idx])))
CorruptCheckpoint2 ==
    /\ pc = "stage2"
    /\ ckpt2[idx] # Absent
    /\ ~JsonValid(ckpt2[idx])

\* C6: a checkpoint file that exists but does not parse as what the reader
\* expects is a cache miss: the next step of the run invokes the agent for
\* that stage instead of ending the run.
C6_CorruptCheckpointIsMiss ==
    [][/\ (CorruptCheckpoint1 /\ pc' # "crashed") => Stage1InvokeStep(idx)
       /\ (CorruptCheckpoint2 /\ pc' # "crashed") => pc' = "stage2_invoke"]_vars

\* C7: whenever a document's processing begins, the chat memory is empty and
\* response1, product_info and response2 hold the all-empty defaults; and no
\* row of output.csv carries a field value of a document other than its own.
C7_Isolation ==
    /\ pc = "load" =>
        /\ memory = {}
        /\ response1 = DefaultResponse1
        /\ product_info = JsonDumps(Dict([k \in Stage1Keys |-> EmptyStr]))
        /\ response2 = DefaultResponse2
    /\ \A j \in 1..Len(output_csv) : \A c \in 2..Len(output_csv[j]) :
          output_csv[j][c][2] \in Stage1Keys \cup Stage2Keys
              => output_csv[j][c][3] = output_csv[j][1][3]

\* C7's case: the second document begins after the first one has put field
\* values of its own into the chat memory and into its row.
C7_Witness ==
    /\ pc = "load"
    /\ \E j \in 1..Len(RunRows) :
          /\ RunRows[j][1][3] \in Docs
          /\ RunRows[j][1][3] < idx
          /\ RunRows[j][2] = FieldVal("product_name", RunRows[j][1][3])
          /\ RunRows[j][6] = FieldVal("latest_sds_url", RunRows[j][1][3])

\* C8: for a document that fails to load, the agent is invoked for neither
\* stage and the row appended for it holds the file name and seven empty
\* strings.
C8_LoadFailureRow ==
    /\ (InLoop /\ idx \in unreadable) =>
          /\ pc \in {"loop", "load", "row", "clear"}
          /\ \A inv \in invoked : inv[1] # idx
    /\ (pc = "clear" /\ idx \in unreadable) =>
          /\ Len(output_csv) > rowsAtStart
          /\ output_csv[Len(output_csv)] = EmptyRow(idx)

\* C8's case: the row step has run for a document that failed to load.
C8_Witness ==
    /\ pc = "clear"
    /\ idx \in unreadable
    /\ Len(output_csv) > rowsAtStart
    /\ output_csv[Len(output_csv)] = EmptyRow(idx)

\* C9: when the stage-2 agent.invoke has raised, the row step appends a row
\* for the document: the file name, the stage-1 fields that were obtained,
\* the error marker with the reason as latest_sds_url, and empty
\* latest_sds_version and latest_sds_date; and the loop goes on.
C9_Stage2ErrorRow ==
    [][(pc = "row" /\ IsErrorResponse(response2) /\ pc' # "crashed") =>
          /\ pc' = "clear"
          /\ Len(output_csv') = Len(output_csv) + 1
          /\ output_csv'[Len(output_csv')][1] = FileName(idx)
          /\ \E e \in AgentErrors :
                /\ response2 = ErrorResponse2(e)
                /\ output_csv'[Len(output_csv')][6] = ErrMark(e)
          /\ output_csv'[Len(output_csv')][7] = EmptyStr
          /\ output_csv'[Len(output_csv')][8] = EmptyStr]_vars

\* C10: a file name is appended to processed_file.csv only when this run has
\* already appended that document's row to output.csv.
C10_RowBeforeProcessedLog ==
    [][(pc = "log" /\ pc' = "row") =>
          \E j \in 1..Len(RunRows) : RunRows[j][1] = FileName(idx)]_vars

\* how many lines of processed_file.csv name file f
TimesLogged(f) ==
    Cardinality({i \in 1..Len(processed_file_csv) : processed_file_csv[i] = <<FileName(f)>>})

\* this step is a stage-2 agent.invoke (returning or raising)
Stage2InvokeStep == pc = "stage2_invoke" /\ pc' \in {"stage2_open", "log"}

\* C11: a document whose name is in processed_file.csv when the run starts is
\* not processed again: no agent.invoke is made for it, no row is appended
\* for it and its name is not appended to processed_file.csv a second time.
\* (Within a run the name is appended after the invocations and before the
\* row, so "already there at the start" reads: there before an invocation or
\* the append, there twice before the row.)
C11_ProcessedNotReprocessed ==
    [][/\ (Stage1InvokeStep(idx) \/ Stage2InvokeStep) => TimesLogged(idx) = 0
       /\ (pc = "log" /\ pc' = "row") => TimesLogged(idx) = 0
       /\ (pc = "row" /\ output_csv' # output_csv) => TimesLogged(idx) <= 1]_vars

\* C12: the stage-2 checkpoint is taken as a cache hit only when its content
\* parses as the expected field set: an object holding latest_sds_url,
\* latest_sds_version and latest_sds_date.
C12_HitNeedsFieldSet ==
    pc = "stage2_reload" =>
        /\ hasValidJson
        /\ Stage2Usable(JsonLoads(ckpt2[idx]))
        /\ Stage2Keys \subseteq DOMAIN JsonLoads(JsonLoads(ckpt2[idx])[2].output)[2]

\* s is the beginning of t
IsPrefix(s, t) == Len(s) <= Len(t) /\ SubSeq(t, 1, Len(s)) = s

\* the data rows of output.csv that name file f
RowsOf(f) == {i \in 1..Len(output_csv) : output_csv[i][1] = FileName(f) }

\* C13: a crash loses no row already in the result table: every step of a run
\* keeps the rows appended so far as an unchanged beginning of output.csv, the
\* kill itself changes nothing in the file, and the rows this run has appended
\* name only documents enumerated up to the one in flight.
C13_CrashKeepsRows ==
    [][/\ IsPrefix(output_csv, output_csv')
       /\ pc' = "crashed" =>
            /\ output_csv' = output_csv
            /\ InLoop => \A i \in 1..Len(RunRows) :
                            \E d \in Docs : d <= idx /\ RunRows[i][1] = FileName(d)]_vars

\* C13 witness: the process was killed while the second document was in flight
\* (its name is logged, its row is not yet written); the first one's row is in
\* the table.
C13_Witness ==
    /\ pc = "crashed"
    /\ passes = 2
    /\ RowsOf(2) # {}
    /\ TimesLogged(3) = 1
    /\ RowsOf(3) = {}

\* header h is the first line of table t and no other line of it
HeaderOnce(t, h) ==
    /\ Len(t) >= 1
    /\ t[1] = h
    /\ \A i \in 2..Len(t) : t[i] # h

\* C14: output.csv and processed_file.csv are append-only across runs: start-up
\* writes the header only into a file it has just created and leaves an existing
\* file alone, every step of every run keeps the previous content as an
\* unchanged beginning, and so, whenever a run is in its loop, each file has its
\* header exactly once, as its first line.
C14_AppendOnlyHeaderOnce ==
    [][/\ IsPrefix(output_csv, output_csv')
       /\ IsPrefix(processed_file_csv, processed_file_csv')
       /\ (pc = "setup_output" /\ "output.csv" \in fs) => output_csv' = output_csv
       /\ (pc = "setup_processed" /\ "processed_file.csv" \in fs) =>
              processed_file_csv' = processed_file_csv
       /\ (pc = "setup_output" /\ "output.csv" \notin fs /\ pc' # "crashed") =>
              pc' = "setup_output_header"
       /\ (pc = "setup_processed" /\ "processed_file.csv" \notin fs /\ pc' # "crashed") =>
              pc' = "setup_processed_header"
       /\ InLoop' => /\ HeaderOnce(output_csv', OutputHeader)
                     /\ HeaderOnce(processed_file_csv', ProcessedHeader)]_vars

\* c is what lines 256-257 leave in <base>_2.json after a stage-2 answer that
\* is a JSON object text: the JSON encoding of that text
WrittenFromObjectText(c) ==
    /\ JsonValid(c)
    /\ IsStr(JsonLoads(c))
    /\ BraceDelimited(JsonLoads(c))
    /\ JsonValid(JsonLoads(c))
    /\ IsDict(JsonLoads(JsonLoads(c)))

\* C18: a stage-2 checkpoint the pipeline wrote from a JSON object answer is
\* accepted by the pipeline's own check when a later pass reads it back:
\* hasValidJson becomes true and the checkpoint is reloaded, not recomputed.
C18_Stage2RoundTrip ==
    [][(pc = "stage2" /\ pc' # "crashed" /\ WrittenFromObjectText(ckpt2[idx])) =>
            /\ hasValidJson'
            /\ pc' = "stage2_reload"]_vars

(***************************************************************************)
(* html_to_text_converter.py.  A str is the sequence of its characters; a *)
(* markup is a sequence of characters and "<br>" tags, which is where     *)
(* html.parser ends one text node and starts the next.                    *)
(***************************************************************************)
MaxLen == 5

Tag == "<br>"
Whitespace == {" ", "\n", "\r"}
Chars == {"1", "."} \cup Whitespace
\* response.text of a request that did not raise
Markups == UNION {[1..n -> Chars \cup {Tag}] : n \in 0..MaxLen}

\* str.strip() of a character sequence
RECURSIVE LStrip(_)
LStrip(s) == IF s # <<>> /\ Head(s) \in Whitespace THEN LStrip(Tail(s)) ELSE s
RECURSIVE RStrip(_)
RStrip(s) ==
    IF s # <<>> /\ s[Len(s)] \in Whitespace THEN RStrip(SubSeq(s, 1, Len(s) - 1)) ELSE s
StripChars(s) == RStrip(LStrip(s))

\* sep.join(parts)
RECURSIVE Join(_, _)
Join(parts, sep) ==
    IF parts = <<>> THEN <<>>
    ELSE IF Len(parts) = 1 THEN parts[1]
    ELSE parts[1] \o <<sep>> \o Join(Tail(parts), sep)

NonEmpty(part) == part # <<>>

\* the text nodes of the parsed markup, in document order
RECURSIVE TextNodes(_, _, _)
TextNodes(m, i, node) ==
    IF i > Len(m) THEN <<node>>
    ELSE IF m[i] = Tag THEN <<node>> \o TextNodes(m, i + 1, <<>>)
    ELSE TextNodes(m, i + 1, Append(node, m[i]))

\* line 47: soup.get_text(separator='\n', strip=True): every text node
\* stripped, the empty ones left out, joined by the separator
GetText(m) ==
    LET nodes == TextNodes(m, 1, <<>>)
        stripped == [k \in 1..Len(nodes) |-> StripChars(nodes[k])]
    IN  Join(SelectSeq(stripped, NonEmpty), "\n")

\* str.splitlines(): "\n", "\r" and "\r\n" each end a line, and no empty
\* last line is reported after a final line end
RECURSIVE SplitLines(_, _, _)
SplitLines(t, i, line) ==
    IF i > Len(t) THEN IF line = <<>> THEN <<>> ELSE <<line>>
    ELSE IF t[i] = "\r" /\ i < Len(t) /\ t[i + 1] = "\n"
         THEN <<line>> \o SplitLines(t, i + 2, <<>>)
    ELSE IF t[i] \in {"\n", "\r"} THEN <<line>> \o SplitLines(t, i + 1, <<>>)
    ELSE SplitLines(t, i + 1, Append(line, t[i]))

\* Mutant of CleanedText: the lines are not stripped.
CleanedTextNoStrip(text) ==
    Join(SelectSeq(SplitLines(text, 1, <<>>), NonEmpty), "\n")

\* lines 50-52
CleanedText(text) ==
    LET lines == SplitLines(text, 1, <<>>)
        stripped == [k \in 1..Len(lines) |-> StripChars(lines[k])]
    IN  Join(SelectSeq(stripped, NonEmpty), "\n")

\* line 57
start_marker == <<"1", ".">>

\* marker stands in t at position i
MatchAt(t, marker, i) ==
    /\ i >= 1
    /\ i + Len(marker) - 1 <= Len(t)
    /\ SubSeq(t, i, i + Len(marker) - 1) = marker

\* Mutant of Index: str.rindex, the last occurrence.
RECURSIVE RIndexFrom(_, _, _)
RIndexFrom(t, marker, i) ==
    IF i < 1 THEN 0
    ELSE IF MatchAt(t, marker, i) THEN i
    ELSE RIndexFrom(t, marker, i - 1)
RIndex(t, marker) == RIndexFrom(t, marker, Len(t))

\* line 60: str.index scans from the left; 0 stands for ValueError
RECURSIVE IndexFrom(_, _, _)
IndexFrom(t, marker, i) ==
    IF i + Len(marker) - 1 > Len(t) THEN 0
    ELSE IF MatchAt(t, marker, i) THEN i
    ELSE IndexFrom(t, marker, i + 1)
Index(t, marker) == IndexFrom(t, marker, 1)

\* lines 58-67
FromMarker(cleaned) ==
    IF Index(cleaned, start_marker) = 0 THEN <<>>
    ELSE SubSeq(cleaned, Index(cleaned, start_marker), Len(cleaned))

\* lines 27-67
extract_text_from_html(m) == FromMarker(CleanedText(GetText(m)))

\* `if x:` on a str-or-None value
Truthy(x) == x # None /\ x # <<>>

\* the command lines argparse accepts: exactly one of --url / --search-lite
\* (line 127), each possibly the empty string; --output given or not
ArgSets ==
    {[url |-> u, search_lite |-> q, region |-> "wt-wt", output |-> o] :
        u \in {None, <<>>, <<"u">>}, q \in {None, <<>>, <<"q">>},
        o \in {None, <<"o">>}}
CommandLines == {a \in ArgSets : (a.url = None) # (a.search_lite = None)}

InitHtml ==
    /\ pc = "idle"
    /\ passes = 0
    /\ error = ""
    /\ unreadable = {}
    /\ fs = {}
    /\ output_csv = <<>>
    /\ processed_file_csv = <<>>
    /\ ckpt1 = [d \in Docs |-> Absent]
    /\ ckpt2 = [d \in Docs |-> Absent]
    /\ idx = 0
    /\ pdf_text = 0
    /\ isPDFValid = FALSE
    /\ response1 = Unbound
    /\ product_info = Unbound
    /\ sanitized_product_info = Unbound
    /\ response2 = Unbound
    /\ hasValidJson = FALSE
    /\ memory = {}
    /\ invoked = {}
    /\ written1 = [d \in Docs |-> Unbound]
    /\ prevEnd = "none"
    /\ rowsAtStart = 0
    /\ hpc = "main"
    /\ args \in CommandLines
    /\ html_content = None
    /\ extracted_text = <<>>
    /\ result_json = None
    /\ stdout = <<>>
    /\ output_file = Absent
    /\ fetched = None
    /\ cleaned_text = <<>>

pipeline == <<pc, passes, error, unreadable, files, locals, history>>

\* lines 16-25 and 91-98: the request raises RequestException (None is
\* returned and the error printed) or response.text is returned
Request(what) ==
    \/ /\ html_content' = None
       /\ stdout' = Append(stdout, <<"Error", what>>)
    \/ \E body \in Markups :
          /\ html_content' = body
          /\ stdout' = stdout

\* lines 139-143
MainUrl ==
    /\ hpc = "main"
    /\ Truthy(args.url)
    /\ Request(args.url)
    /\ fetched' = html_content'
    /\ hpc' = IF Truthy(html_content') THEN "extract_url" ELSE "result"
    /\ UNCHANGED <<pipeline, args, extracted_text, result_json, output_file, cleaned_text>>

\* lines 154-158
MainSearchLite ==
    /\ hpc = "main"
    /\ ~Truthy(args.url)
    /\ Truthy(args.search_lite)
    /\ Request(args.search_lite)
    /\ fetched' = html_content'
    /\ hpc' = IF Truthy(html_content') THEN "extract_search" ELSE "result"
    /\ UNCHANGED <<pipeline, args, extracted_text, result_json, output_file, cleaned_text>>

\* neither `if args.url:` nor `elif args.search_lite:` is taken
MainNoSource ==
    /\ hpc = "main"
    /\ ~Truthy(args.url)
    /\ ~Truthy(args.search_lite)
    /\ hpc' = "result"
    /\ UNCHANGED <<pipeline, args, html_content, extracted_text, result_json, stdout,
                   output_file, fetched, cleaned_text>>

\* lines 144-152
ExtractUrl ==
    /\ hpc = "extract_url"
    /\ cleaned_text' = CleanedText(GetText(html_content))
    /\ extracted_text' = extract_text_from_html(html_content)
    /\ result_json' = JsonDumps(Dict([source_type |-> "url",
                                      source_value |-> args.url,
                                      extracted_text |-> extracted_text']))
    /\ hpc' = "result"
    /\ UNCHANGED <<pipeline, args, html_content, stdout, output_file, fetched>>

\* lines 159-168
ExtractSearchLite ==
    /\ hpc = "extract_search"
    /\ cleaned_text' = CleanedText(GetText(html_content))
    /\ extracted_text' = extract_text_from_html(html_content)
    /\ result_json' = JsonDumps(Dict([source_type |-> "duckduckgo_lite_search",
                                      query |-> args.search_lite,
                                      region |-> args.region,
                                      extracted_text |-> extracted_text']))
    /\ hpc' = "result"
    /\ UNCHANGED <<pipeline, args, html_content, stdout, output_file, fetched>>

\* lines 170-178
MainResult ==
    /\ hpc = "result"
    /\ IF result_json # None
       THEN IF Truthy(args.output)
            THEN /\ output_file' = result_json
                 /\ stdout' = Append(stdout, <<"Output saved to", args.output>>)
            ELSE /\ stdout' = Append(stdout, result_json)
                 /\ UNCHANGED output_file
       ELSE /\ stdout' = Append(stdout, <<"Failed to process", 0>>)
            /\ UNCHANGED output_file
    /\ hpc' = "returned"
    /\ UNCHANGED <<pipeline, args, html_content, extracted_text, result_json, fetched,
                   cleaned_text>>

NextHtml ==
    \/ MainUrl \/ MainSearchLite \/ MainNoSource
    \/ ExtractUrl \/ ExtractSearchLite
    \/ MainResult

SpecHtml == InitHtml /\ [][NextHtml]_vars

\* main has been through extract_text_from_html
Extracted == hpc \in {"result", "returned"} /\ result_json # None

NormalLines(t) ==
    /\ t # <<>> => t[1] \notin Whitespace /\ t[Len(t)] \notin Whitespace
    /\ \A i \in 1..Len(t) :
          t[i] \in {"\n", "\r"} =>
              /\ 1 < i /\ i < Len(t)
              /\ t[i - 1] \notin Whitespace
              /\ t[i + 1] \notin Whitespace

\* C16: the cleaned text has no empty line and no line with leading or
\* trailing whitespace, and neither has the value returned after the
\* truncation at the marker.
C16_LineNormalization ==
    Extracted => NormalLines(cleaned_text) /\ NormalLines(extracted_text)

\* C16 witness: the text got from the markup had a blank line or a line with
\* whitespace around it, and a text of more than one line was returned.
C16_Witness ==
    /\ hpc = "returned"
    /\ ~NormalLines(GetText(html_content))
    /\ \E i \in 1..Len(extracted_text) : extracted_text[i] = "\n"

\* the JSON object main builds: source_type, source_value or query, and
\* extracted_text
IsResultObject(x) ==
    /\ x[1] = "json"
    /\ {"source_type", "extracted_text"} \subseteq DOMAIN x[2][2]
    /\ \/ "source_value" \in DOMAIN x[2][2]
       \/ "query" \in DOMAIN x[2][2]

Printed(what) == \E i \in 1..Len(stdout) : stdout[i][1] = what

\* the request returned a response (no RequestException was raised)
FetchSucceeded == fetched # None

\* C17: when main returns, the JSON object has been emitted (written to the
\* --output file when one is given, printed otherwise) if and only if the fetch
\* or search succeeded; after a failed one the failure message has been
\* printed, no JSON has been printed and none is in the output file.
C17_JsonIffFetchSucceeded ==
    hpc = "returned" =>
        /\ FetchSucceeded <=>
              IF args.output # None
              THEN output_file # Absent /\ IsResultObject(output_file)
              ELSE Printed("json")
        /\ ~FetchSucceeded =>
              /\ Printed("Failed to process")
              /\ ~Printed("json")
              /\ output_file = Absent

====
